---------------------------- MODULE Spec2Model ----------------------------
(***************************************************************************)
(* Model of src/main.py, the Fitbit EDA batch pipeline: load four CSV      *)
(* sources, normalise identifiers and timestamps, de-duplicate, aggregate  *)
(* heart-rate samples per day, left-join, flag implausible rows, aggregate *)
(* and save.                                                               *)
(*                                                                         *)
(* A DataFrame is the record [isNone, cols, rows]: cols is the set of its  *)
(* column names and rows the sequence of its rows, each row a record that  *)
(* carries the DataFrame index label in idx.  Null numeric cells are NaN,  *)
(* null timestamps NaT.  Timestamps are day*100 + hour, day 1 being        *)
(* 4/12/2016, so that normalize() keeps the hundreds.  AvgHR, MaxHR and    *)
(* MinHR are held in tenths (70.0 is 700).  The cell values of             *)
(* SedentaryMinutes, VeryActiveMinutes and LightlyActiveMinutes are never  *)
(* inspected by the pipeline before the group means; they are carried as   *)
(* column names only.  A mean that is not rounded is the pair              *)
(* <<sum, count>> of its non-null cells.                                   *)
(***************************************************************************)
EXTENDS Integers, Sequences, FiniteSets, TLC

VARIABLES fs, pc, raised, out, daily, sleep, weight, heart, hr_day, df,
          df_valid, cal_median, agg_by_date, agg_by_weekday, seg, saved

vars == <<fs, pc, raised, out, daily, sleep, weight, heart, hr_day, df,
          df_valid, cal_median, agg_by_date, agg_by_weekday, seg, saved>>

\* ------------------------------------------------------------------ bounds
MaxRows == 2
MaxDup == 3
MaxSleep == 2
MaxHeart == 3
MaxQC == 3

\* ------------------------------------------------------------ null values
NaN == -1
NaT == 0
Garbage == -2
Fail == -1

\* ------------------------------------------------------------- DataFrames
NoneT == [isNone |-> TRUE, cols |-> {}, rows |-> <<>>]

Frame(cols, rows) == [isNone |-> FALSE, cols |-> cols, rows |-> rows]

\* rows of s at the positions i with Keep(i), in order
SelectIdx(s, Keep(_)) ==
    LET K == {i \in 1..Len(s) : Keep(i)}
    IN  [k \in 1..Cardinality(K) |->
            s[CHOOSE i \in K : Cardinality({j \in K : j <= i}) = k]]

\* a fresh RangeIndex
ResetIndex(rows) == [i \in 1..Len(rows) |-> [rows[i] EXCEPT !.idx = i - 1]]

RECURSIVE SumSeq(_)
SumSeq(s) == IF s = <<>> THEN 0 ELSE Head(s) + SumSeq(Tail(s))

\* ------------------------------------------------------------------- Load
read_csv_safe(f) ==
    IF f.status = "ok" THEN Frame(f.cols, f.rows) ELSE NoneT

ReadLog(name, f) ==
    IF f.status = "missing" THEN <<"Missing file: " \o name>>
    ELSE IF f.status = "corrupt" THEN <<"Failed to read " \o name>>
    ELSE <<>>

WarnLog(name, t) == IF t.isNone THEN <<"WARNING: " \o name \o " not loaded">> ELSE <<>>

\* ---------------------------------------------------------------- norm_id
\* pd.to_numeric(errors="coerce") on the identifier tokens of the model
IdToNumeric(v) ==
    CASE v \in {"1", "1.0"} -> 1
      [] v \in {"2", "2.0"} -> 2
      [] v \in {"3", "3.0"} -> 3
      [] OTHER -> NaN

\* .astype("Int64").astype(str)
Int64Str(n) ==
    CASE n = 1 -> "1"
      [] n = 2 -> "2"
      [] n = 3 -> "3"
      [] OTHER -> "<NA>"

\* mutant: rows whose Id fails the coercion are dropped
norm_id_dropna(t) ==
    IF t.isNone \/ "Id" \notin t.cols THEN t
    ELSE LET k == SelectIdx(t.rows, LAMBDA i : IdToNumeric(t.rows[i].Id) # NaN)
         IN  [t EXCEPT !.rows =
                [i \in 1..Len(k) |-> [k[i] EXCEPT !.Id = Int64Str(IdToNumeric(k[i].Id))]]]

norm_id(t) ==
    IF t.isNone \/ "Id" \notin t.cols THEN t
    ELSE [t EXCEPT !.rows =
            [i \in 1..Len(t.rows) |->
                [t.rows[i] EXCEPT !.Id = Int64Str(IdToNumeric(t.rows[i].Id))]]]

\* ------------------------------------------------------------ Parse dates
\* strptime with "%m/%d/%Y"
StrpDate(tok) ==
    CASE tok = "4/12/2016" -> 100
      [] tok = "4/13/2016" -> 200
      [] OTHER -> Fail

\* strptime with "%m/%d/%Y %I:%M:%S %p"
Strp12(tok) ==
    CASE tok = "4/12/2016 1:00:00 AM" -> 101
      [] tok = "4/12/2016 11:00:00 PM" -> 123
      [] tok = "4/13/2016 1:00:00 AM" -> 201
      [] OTHER -> Fail

\* strptime with "%m/%d/%Y %H:%M:%S"
Strp24(tok) ==
    CASE tok = "4/12/2016 13:00:00" -> 113
      [] tok = "4/13/2016 13:00:00" -> 213
      [] OTHER -> Fail

Coerce(v) == IF v = Fail THEN NaT ELSE v

normalize(ts) == (ts \div 100) * 100

\* daily: ActivityDate parsed with the date-only format, errors="coerce"
ParseDaily(t) ==
    IF ~t.isNone /\ "ActivityDate" \in t.cols
    THEN [t EXCEPT !.cols = @ \cup {"date"},
                   !.rows = [i \in 1..Len(t.rows) |->
                       [t.rows[i] EXCEPT !.ActivityDate = Coerce(StrpDate(@))]
                       @@ [date |-> normalize(Coerce(StrpDate(t.rows[i].ActivityDate)))]]]
    ELSE t

\* sleep: SleepDay parsed with the 12-hour format only, errors="coerce"
ParseSleep(t) ==
    IF ~t.isNone /\ "SleepDay" \in t.cols
    THEN [t EXCEPT !.cols = @ \cup {"date"},
                   !.rows = [i \in 1..Len(t.rows) |->
                       [t.rows[i] EXCEPT !.SleepDay = Coerce(Strp12(@))]
                       @@ [date |-> normalize(Coerce(Strp12(t.rows[i].SleepDay)))]]]
    ELSE t

\* pd.to_datetime(col, format=12-hour, errors="raise") raises when one cell fails
Raises12(rows, c) == \E i \in 1..Len(rows) : Strp12(rows[i][c]) = Fail

\* try the 12-hour format on the whole column; on an exception parse the
\* whole column with the 24-hour format, errors="coerce"
ParseColumn(rows, c) ==
    IF Raises12(rows, c)
    THEN [i \in 1..Len(rows) |-> Coerce(Strp24(rows[i][c]))]
    ELSE [i \in 1..Len(rows) |-> Strp12(rows[i][c])]

ParseWeight(t) ==
    IF ~t.isNone /\ "Date" \in t.cols
    THEN [t EXCEPT !.rows = [i \in 1..Len(t.rows) |->
                       [t.rows[i] EXCEPT !.Date = ParseColumn(t.rows, "Date")[i]]]]
    ELSE t

time_col(t) ==
    IF "Time" \in t.cols THEN "Time"
    ELSE IF "ActivitySecond" \in t.cols THEN "ActivitySecond" ELSE "None"

ParseHeart(t) ==
    IF ~t.isNone /\ time_col(t) # "None"
    THEN [t EXCEPT !.cols = @ \cup {"date"},
                   !.rows = [i \in 1..Len(t.rows) |->
                       [t.rows[i] EXCEPT ![time_col(t)] = ParseColumn(t.rows, time_col(t))[i]]
                       @@ [date |-> normalize(ParseColumn(t.rows, time_col(t))[i])]]]
    ELSE t

ParseLog(t) ==
    IF ~t.isNone /\ time_col(t) = "None"
    THEN <<"WARNING: Heart file missing Time/ActivitySecond column">> ELSE <<>>

\* ----------------------------------------------------------------- Dedupe
\* Python string order of the canonical identifiers ('<' sorts after digits)
IdRank(id) ==
    CASE id = "1" -> 1
      [] id = "2" -> 2
      [] id = "3" -> 3
      [] OTHER -> 4

SameKey(a, b) == a.Id = b.Id /\ a.date = b.date

\* order of sort_values(["Id","date"]): ascending, NaT last
KeyLess(a, b) ==
    \/ IdRank(a.Id) < IdRank(b.Id)
    \/ /\ a.Id = b.Id
       /\ a.date # NaT
       /\ (b.date = NaT \/ a.date < b.date)

\* sort_values on several columns is a stable lexsort
SortValues(rows) ==
    LET Pos(i) == Cardinality({j \in 1..Len(rows) : KeyLess(rows[j], rows[i])})
                + Cardinality({j \in 1..(i - 1) : SameKey(rows[j], rows[i])}) + 1
    IN  [k \in 1..Len(rows) |-> rows[CHOOSE i \in 1..Len(rows) : Pos(i) = k]]

\* mutant: keep="last"
DropDuplicatesLast(rows) ==
    SelectIdx(rows, LAMBDA i : \A j \in (i + 1)..Len(rows) : ~SameKey(rows[j], rows[i]))

\* drop_duplicates(["Id","date"], keep="first")
DropDuplicates(rows) ==
    SelectIdx(rows, LAMBDA i : \A j \in 1..(i - 1) : ~SameKey(rows[j], rows[i]))

Dedupe(d) ==
    IF ~d.isNone /\ "Id" \in d.cols /\ "date" \in d.cols
    THEN [d EXCEPT !.rows = DropDuplicates(SortValues(d.rows))]
    ELSE d

\* ----------------------------------------------------------- HR daily agg
HrCols == {"Id", "date", "AvgHR", "MaxHR", "MinHR", "HRCount"}

\* round(num/den, 1 decimal) of a mean, in tenths: numpy rounds half to even
RoundHalfEven(num, den) ==
    LET q == num \div den
        r == num % den
    IN  IF 2 * r < den THEN q
        ELSE IF 2 * r > den THEN q + 1
        ELSE IF q % 2 = 0 THEN q ELSE q + 1

MaxOf(S) == CHOOSE x \in S : \A y \in S : y <= x
MinOf(S) == CHOOSE x \in S : \A y \in S : x <= y

HeartUsable(h) ==
    ~h.isNone /\ "Value" \in h.cols /\ "Id" \in h.cols /\ "date" \in h.cols

\* Value column of the rows of one group, in row order
GroupValues(rows, k) ==
    LET g == SelectIdx(rows, LAMBDA i : SameKey(rows[i], k))
    IN  [i \in 1..Len(g) |-> g[i].Value]

\* mutant: the mean is truncated to one decimal
AvgHRTruncated(vals) == (10 * SumSeq(vals)) \div Len(vals)

AvgHRof(vals) == RoundHalfEven(10 * SumSeq(vals), Len(vals))

HRCountOf(vals) == Len(vals)

\* groupby(["Id","date"]) drops null keys and sorts the groups by key
HrAgg(h) ==
    LET g    == SelectIdx(h.rows, LAMBDA i : h.rows[i].date # NaT)
        reps == DropDuplicates(SortValues(g))
    IN  [k \in 1..Len(reps) |->
            LET vals == GroupValues(g, reps[k])
                V    == {vals[i] : i \in 1..Len(vals)}
            IN  [idx |-> k - 1, Id |-> reps[k].Id, date |-> reps[k].date,
                 AvgHR |-> AvgHRof(vals), MaxHR |-> 10 * MaxOf(V),
                 MinHR |-> 10 * MinOf(V), HRCount |-> HRCountOf(vals)]]

\* mutant: the empty aggregate has the key columns only
HrDayKeysOnly(h) ==
    IF HeartUsable(h) THEN Frame(HrCols, HrAgg(h)) ELSE Frame({"Id", "date"}, <<>>)

HrDay(h) ==
    IF HeartUsable(h) THEN Frame(HrCols, HrAgg(h)) ELSE Frame(HrCols, <<>>)

\* ------------------------------------------------------ Build analysis df
keep == {"Id", "date", "TotalSteps", "Calories", "SedentaryMinutes",
         "VeryActiveMinutes", "LightlyActiveMinutes"}

safe_cols(t, cols) == IF t.isNone THEN {} ELSE cols \cap t.cols

\* t[cols]: the index and the named columns
Project(t, cols) ==
    Frame(cols, [i \in 1..Len(t.rows) |->
        [f \in (cols \cap DOMAIN t.rows[i]) \cup {"idx"} |-> t.rows[i][f]]])

RECURSIVE Flatten(_)
Flatten(ss) == IF ss = <<>> THEN <<>> ELSE Head(ss) \o Flatten(Tail(ss))

on == {"Id", "date"}

\* mutant: how="inner"
MergeInner(left, right) ==
    LET new == right.cols \ on
        Ext(l) ==
            LET m == SelectIdx(right.rows, LAMBDA j : SameKey(right.rows[j], l))
            IN  [j \in 1..Len(m) |-> l @@ [c \in new |-> m[j][c]]]
    IN  Frame(left.cols \cup right.cols,
              ResetIndex(Flatten([i \in 1..Len(left.rows) |-> Ext(left.rows[i])])))

\* left.merge(right, on=["Id","date"], how="left"): left order kept, null
\* keys match null keys, unmatched rows get nulls, the index is reset
MergeLeft(left, right) ==
    LET new == right.cols \ on
        Ext(l) ==
            LET m == SelectIdx(right.rows, LAMBDA j : SameKey(right.rows[j], l))
            IN  IF m = <<>> THEN << l @@ [c \in new |-> NaN] >>
                ELSE [j \in 1..Len(m) |-> l @@ [c \in new |-> m[j][c]]]
    IN  Frame(left.cols \cup right.cols,
              ResetIndex(Flatten([i \in 1..Len(left.rows) |-> Ext(left.rows[i])])))

MergeRaises(left, right) == ~(on \subseteq left.cols /\ on \subseteq right.cols)

num_cols == {"TotalSteps", "Calories", "SedentaryMinutes", "VeryActiveMinutes",
             "LightlyActiveMinutes", "TotalMinutesAsleep", "AvgHR", "MaxHR",
             "MinHR", "HRCount"}

\* pd.to_numeric(errors="coerce") on a cell
ToNumeric(v) == IF v = Garbage THEN NaN ELSE v

day_name(d) ==
    CASE d = 100 -> "Tuesday"
      [] d = 200 -> "Wednesday"
      [] OTHER -> "nan"

Coerced(t) ==
    [t EXCEPT !.rows = [i \in 1..Len(t.rows) |->
        [f \in DOMAIN t.rows[i] |->
            IF f \in num_cols THEN ToNumeric(t.rows[i][f]) ELSE t.rows[i][f]]]]

WithWeekday(t) ==
    IF "date" \in t.cols
    THEN [t EXCEPT !.cols = @ \cup {"weekday"},
                   !.rows = [i \in 1..Len(t.rows) |->
                       t.rows[i] @@ [weekday |-> day_name(t.rows[i].date)]]]
    ELSE t

df0 == IF daily.isNone THEN Frame(keep, <<>>) ELSE Project(daily, safe_cols(daily, keep))

SleepPart == Project(sleep, safe_cols(sleep, {"Id", "date", "TotalMinutesAsleep"}))

\* ----------------------------------------------------------------- QC flags
\* Series.median(skipna=True); the Calories of the model are even numbers,
\* so the mean of the two middle values is exact
Median(t) ==
    LET nn == SelectIdx(t.rows, LAMBDA i : t.rows[i].Calories # NaN)
        n  == Len(nn)
        Rank(i) == Cardinality({j \in 1..n : nn[j].Calories < nn[i].Calories})
                 + Cardinality({j \in 1..(i - 1) : nn[j].Calories = nn[i].Calories}) + 1
        At(k) == nn[CHOOSE i \in 1..n : Rank(i) = k].Calories
    IN  IF "Calories" \notin t.cols \/ n = 0 THEN NaN
        ELSE (At((n + 1) \div 2) + At((n \div 2) + 1)) \div 2

\* df.get(col, 0) of row r
Get(t, r, col) == IF col \in t.cols THEN r[col] ELSE 0

\* mutant: a null TotalSteps counts as 0 (fillna(0))
StepsIsZeroOrNull(v) == v = NaN \/ v = 0

\* mutant: >= instead of >
CalAtLeast(v, m) == v # NaN /\ m # NaN /\ v >= m

\* comparisons with a null are false
StepsIsZero(v) == v # NaN /\ v = 0
CalAbove(v, m) == v # NaN /\ m # NaN /\ v > m

ZeroStepHighCal(t, r, m) ==
    StepsIsZero(Get(t, r, "TotalSteps")) /\ CalAbove(Get(t, r, "Calories"), m)

Flagged(t, m) ==
    [t EXCEPT !.cols = @ \cup {"zero_step_high_cal", "valid_row"},
              !.rows = [i \in 1..Len(t.rows) |->
                  t.rows[i] @@ [zero_step_high_cal |-> ZeroStepHighCal(t, t.rows[i], m),
                                valid_row |-> ~ZeroStepHighCal(t, t.rows[i], m)]]]

ValidRows(t) == [t EXCEPT !.rows = SelectIdx(t.rows, LAMBDA i : t.rows[i].valid_row)]

\* ----------------------------------------------------------- Aggregations
\* order in which groupby lists the keys of column by
KeyRank(by, v) ==
    CASE by = "weekday" -> (IF v = "Tuesday" THEN 1 ELSE 2)
      [] by = "steps_bucket" -> (IF v = "<5k" THEN 1 ELSE IF v = "5k-10k" THEN 2 ELSE 3)
      [] OTHER -> v

\* the non-null cells of column c in the rows of group k
GroupCells(rows, by, k, c) ==
    LET g == SelectIdx(rows, LAMBDA i : rows[i][by] = k /\ rows[i][c] # NaN)
    IN  [i \in 1..Len(g) |-> g[i][c]]

MeanOf(cells) == IF cells = <<>> THEN <<0, 0>> ELSE <<SumSeq(cells), Len(cells)>>

\* the groups of column by, null keys dropped, sorted by key
GroupKeys(rows, by) ==
    LET K == {rows[i][by] : i \in 1..Len(rows)} \ {IF by = "date" THEN NaT ELSE "nan"}
    IN  [n \in 1..Cardinality(K) |->
            CHOOSE k \in K : Cardinality({j \in K : KeyRank(by, j) <= KeyRank(by, k)}) = n]

groupmeanRaises(frame, by, cols) ==
    frame.rows # <<>> /\ ~(cols \cup {by} \subseteq frame.cols)

groupmean(frame, by, cols) ==
    IF frame.rows = <<>> THEN Frame({by} \cup cols, <<>>)
    ELSE LET ks == GroupKeys(frame.rows, by)
         IN  Frame({by} \cup cols,
                [n \in 1..Len(ks) |->
                    [c \in cols \cap DOMAIN frame.rows[1] |->
                        MeanOf(GroupCells(frame.rows, by, ks[n], c))]
                    @@ [idx |-> n - 1, key |-> ks[n]]])

DateMeans == {"TotalSteps", "Calories", "SedentaryMinutes", "VeryActiveMinutes",
              "LightlyActiveMinutes", "TotalMinutesAsleep", "AvgHR"}

WeekdayMeans == {"TotalSteps", "Calories", "TotalMinutesAsleep", "AvgHR"}

SegMeans == {"Calories", "TotalMinutesAsleep", "SedentaryMinutes", "AvgHR"}

\* pd.cut(TotalSteps, bins=[-1, 5000, 10000, inf], include_lowest=True)
cut(v) ==
    IF v = NaN \/ v < -1 THEN "nan"
    ELSE IF v <= 5000 THEN "<5k"
    ELSE IF v <= 10000 THEN "5k-10k" ELSE ">10k"

\* assigning an empty Categorical to a frame that has rows raises
BucketRaises(t) == "TotalSteps" \notin t.cols /\ t.rows # <<>>

WithBucket(t) ==
    [t EXCEPT !.cols = @ \cup {"steps_bucket"},
              !.rows = [i \in 1..Len(t.rows) |->
                  t.rows[i] @@ [steps_bucket |-> cut(t.rows[i].TotalSteps)]]]

\* the named aggregation checks its columns before it looks at the rows
segRaises(t) == ~(SegMeans \subseteq t.cols)

Rounded(m, scale) == IF m[2] = 0 THEN NaN ELSE RoundHalfEven(scale * m[1], m[2])

\* groupby("steps_bucket").agg(...).round(1), in tenths
Seg(t) ==
    LET ks == GroupKeys(t.rows, "steps_bucket")
    IN  Frame({"steps_bucket"} \cup SegMeans,
            [n \in 1..Len(ks) |->
                [idx |-> n - 1, key |-> ks[n],
                 Calories |-> Rounded(MeanOf(GroupCells(t.rows, "steps_bucket", ks[n], "Calories")), 10),
                 TotalMinutesAsleep |-> Rounded(MeanOf(GroupCells(t.rows, "steps_bucket", ks[n], "TotalMinutesAsleep")), 10),
                 AvgHR |-> Rounded(MeanOf(GroupCells(t.rows, "steps_bucket", ks[n], "AvgHR")), 1)]])

CsvNames == {"clean_daily_sleep.csv", "agg_by_date.csv", "agg_by_weekday.csv",
             "segments_steps.csv", "heartrate_daily.csv"}

\* ---------------------------------------------------------------- actions
Raise(e) ==
    /\ pc' = "raised"
    /\ raised' = e

\* lines 44-51
Load ==
    /\ pc = "load"
    /\ daily'  = read_csv_safe(fs.daily)
    /\ sleep'  = read_csv_safe(fs.sleep)
    /\ weight' = read_csv_safe(fs.weight)
    /\ heart'  = read_csv_safe(fs.heart)
    /\ out' = out \o ReadLog("daily", fs.daily) \o ReadLog("sleep", fs.sleep)
                  \o ReadLog("weight", fs.weight) \o ReadLog("heart", fs.heart)
                  \o WarnLog("daily", daily') \o WarnLog("sleep", sleep')
                  \o WarnLog("weight", weight') \o WarnLog("heart", heart')
    /\ pc' = "norm_id"
    /\ UNCHANGED <<fs, raised, hr_day, df, df_valid, cal_median, agg_by_date,
                   agg_by_weekday, seg, saved>>

\* lines 58-61
NormIds ==
    /\ pc = "norm_id"
    /\ daily'  = norm_id(daily)
    /\ sleep'  = norm_id(sleep)
    /\ weight' = norm_id(weight)
    /\ heart'  = norm_id(heart)
    /\ pc' = "parse_dates"
    /\ UNCHANGED <<fs, raised, out, hr_day, df, df_valid, cal_median, agg_by_date,
                   agg_by_weekday, seg, saved>>

\* lines 64-87
ParseDates ==
    /\ pc = "parse_dates"
    /\ daily'  = ParseDaily(daily)
    /\ sleep'  = ParseSleep(sleep)
    /\ weight' = ParseWeight(weight)
    /\ heart'  = ParseHeart(heart)
    /\ out' = out \o ParseLog(heart)
    /\ pc' = "dedupe"
    /\ UNCHANGED <<fs, raised, hr_day, df, df_valid, cal_median, agg_by_date,
                   agg_by_weekday, seg, saved>>

\* lines 90-93
DedupeStep ==
    /\ pc = "dedupe"
    /\ daily' = Dedupe(daily)
    /\ sleep' = Dedupe(sleep)
    /\ pc' = "hr_agg"
    /\ UNCHANGED <<fs, raised, out, weight, heart, hr_day, df, df_valid, cal_median,
                   agg_by_date, agg_by_weekday, seg, saved>>

\* lines 96-105
HrDailyAgg ==
    /\ pc = "hr_agg"
    /\ hr_day' = HrDay(heart)
    /\ out' = Append(out, "hr_day rows: " \o ToString(Len(HrDay(heart).rows)))
    /\ pc' = "build_df"
    /\ UNCHANGED <<fs, raised, daily, sleep, weight, heart, df, df_valid, cal_median,
                   agg_by_date, agg_by_weekday, seg, saved>>

\* lines 111-125
BuildDf ==
    /\ pc = "build_df"
    /\ IF ~sleep.isNone /\ MergeRaises(df0, SleepPart)
       THEN Raise("KeyError") /\ df' = df0
       ELSE LET d1 == IF sleep.isNone THEN df0 ELSE MergeLeft(df0, SleepPart)
            IN  IF MergeRaises(d1, hr_day)
                THEN Raise("KeyError") /\ df' = d1
                ELSE /\ df' = WithWeekday(Coerced(MergeLeft(d1, hr_day)))
                     /\ pc' = "qc"
                     /\ UNCHANGED raised
    /\ UNCHANGED <<fs, out, daily, sleep, weight, heart, hr_day, df_valid, cal_median,
                   agg_by_date, agg_by_weekday, seg, saved>>

\* lines 128-132
QcFlags ==
    /\ pc = "qc"
    /\ cal_median' = Median(df)
    /\ df' = Flagged(df, Median(df))
    /\ df_valid' = ValidRows(Flagged(df, Median(df)))
    /\ out' = Append(out, "df_valid rows: "
                          \o ToString(Len(ValidRows(Flagged(df, Median(df))).rows)))
    /\ pc' = "aggregations"
    /\ UNCHANGED <<fs, raised, daily, sleep, weight, heart, hr_day, agg_by_date,
                   agg_by_weekday, seg, saved>>

\* lines 141-164
Aggregations ==
    /\ pc = "aggregations"
    /\ IF groupmeanRaises(df_valid, "date", DateMeans)
       THEN Raise("KeyError") /\ UNCHANGED <<df_valid, agg_by_date, agg_by_weekday, seg>>
       ELSE /\ agg_by_date' = groupmean(df_valid, "date", DateMeans)
            /\ IF groupmeanRaises(df_valid, "weekday", WeekdayMeans)
               THEN Raise("KeyError") /\ UNCHANGED <<df_valid, agg_by_weekday, seg>>
               ELSE /\ agg_by_weekday' = groupmean(df_valid, "weekday", WeekdayMeans)
                    /\ IF BucketRaises(df_valid)
                       THEN Raise("ValueError") /\ UNCHANGED <<df_valid, seg>>
                       ELSE /\ df_valid' = WithBucket(df_valid)
                            /\ IF segRaises(WithBucket(df_valid))
                               THEN Raise("KeyError") /\ UNCHANGED seg
                               ELSE /\ seg' = Seg(WithBucket(df_valid))
                                    /\ pc' = "save"
                                    /\ UNCHANGED raised
    /\ UNCHANGED <<fs, out, daily, sleep, weight, heart, hr_day, df, cal_median, saved>>

\* lines 173-177
SaveCsvs ==
    /\ pc = "save"
    /\ saved' = CsvNames
    /\ out' = out \o <<"Saved: clean_daily_sleep.csv", "Saved: agg_by_date.csv",
                       "Saved: agg_by_weekday.csv", "Saved: segments_steps.csv",
                       "Saved: heartrate_daily.csv">>
    /\ pc' = "done"
    /\ UNCHANGED <<fs, raised, daily, sleep, weight, heart, hr_day, df, df_valid,
                   cal_median, agg_by_date, agg_by_weekday, seg>>

Next ==
    \/ Load
    \/ NormIds
    \/ ParseDates
    \/ DedupeStep
    \/ HrDailyAgg
    \/ BuildDf
    \/ QcFlags
    \/ Aggregations
    \/ SaveCsvs

\* ------------------------------------------------------------ input files
Missing == [status |-> "missing", cols |-> {}, rows |-> <<>>]
Corrupt == [status |-> "corrupt", cols |-> {}, rows |-> <<>>]

\* a CSV file whose data rows are s, each restricted to the columns of the file
Csv(cols, s) ==
    [status |-> "ok", cols |-> cols,
     rows |-> [i \in 1..Len(s) |->
                  [f \in DOMAIN s[i] \cap cols |-> s[i][f]] @@ [idx |-> i - 1]]]

\* the files with lo..hi data rows drawn from dom
Files(cols, dom, lo, hi) ==
    {Csv(cols, s) : s \in UNION {[1..n -> dom] : n \in lo..hi}}

DailyCols == {"Id", "ActivityDate", "TotalSteps", "Calories", "SedentaryMinutes",
              "VeryActiveMinutes", "LightlyActiveMinutes"}
SleepCols == {"Id", "SleepDay", "TotalMinutesAsleep"}
WeightCols == {"Id", "Date"}
HeartSchemas ==
    {I \cup T \cup V : I \in {{}, {"Id"}},
                       T \in {{}, {"Time"}, {"ActivitySecond"}},
                       V \in {{}, {"Value"}}}

HeartRow(id, t, v) == [Id |-> id, Time |-> t, ActivitySecond |-> t, Value |-> v]

InitProgram ==
    /\ pc = "load"
    /\ raised = "none"
    /\ out = <<>>
    /\ daily = NoneT /\ sleep = NoneT /\ weight = NoneT /\ heart = NoneT
    /\ hr_day = NoneT /\ df = NoneT /\ df_valid = NoneT
    /\ cal_median = NaN
    /\ agg_by_date = NoneT /\ agg_by_weekday = NoneT /\ seg = NoneT
    /\ saved = {}

\* --- every combination of absent and present sources, every heart schema
DailyF == {[Id |-> "2.0", ActivityDate |-> "4/12/2016", TotalSteps |-> 0, Calories |-> 4000],
           [Id |-> "x", ActivityDate |-> "2016-04-13", TotalSteps |-> 8000, Calories |-> 2200]}
SleepF == {[Id |-> "2.0", SleepDay |-> "4/12/2016 1:00:00 AM", TotalMinutesAsleep |-> 400],
           [Id |-> "x", SleepDay |-> "garbage", TotalMinutesAsleep |-> 420]}
WeightF == <<[Id |-> "1", Date |-> "4/12/2016 1:00:00 AM"],
             [Id |-> "x", Date |-> "4/12/2016 13:00:00"]>>
HeartF == {HeartRow("2.0", "4/12/2016 1:00:00 AM", 60),
           HeartRow("x", "4/12/2016 11:00:00 PM", 70)}

Init ==
    /\ fs \in [daily  : {Missing, Corrupt} \cup Files(DailyCols, DailyF, 1, MaxRows),
               sleep  : {Missing, Corrupt} \cup Files(SleepCols, SleepF, 1, MaxRows),
               weight : {Missing, Csv(WeightCols, WeightF)},
               heart  : {Missing, Corrupt}
                        \cup UNION {Files(c, HeartF, 1, MaxRows) : c \in HeartSchemas}]
    /\ InitProgram

Spec == Init /\ [][Next]_vars

\* --- duplicate and null keys in daily activity and sleep
DailyD == [Id : {"2.0"}, ActivityDate : {"4/12/2016", "4/13/2016", "2016-04-13"},
           TotalSteps : {8000}, Calories : {2200}]
          \cup [Id : {"x"}, ActivityDate : {"4/12/2016", "2016-04-13"},
                TotalSteps : {8000}, Calories : {2200}]
SleepD == [Id : {"2.0"}, SleepDay : {"4/12/2016 1:00:00 AM", "4/12/2016 11:00:00 PM"},
           TotalMinutesAsleep : {400}]
          \cup {[Id |-> "x", SleepDay |-> "garbage", TotalMinutesAsleep |-> 400]}
HeartD == <<HeartRow("2.0", "4/13/2016 1:00:00 AM", 60), HeartRow("x", "4/12/2016 11:00:00 PM", 61)>>

InitDup ==
    /\ fs \in [daily  : Files(DailyCols, DailyD, 1, MaxDup),
               sleep  : Files(SleepCols, SleepD, 1, MaxSleep),
               weight : {Missing},
               heart  : {Csv({"Id", "Time", "Value"}, HeartD)}]
    /\ InitProgram

SpecDup == InitDup /\ [][Next]_vars

\* --- heart-rate samples and timestamps in both clock formats
HeartH == {HeartRow("1", t, v) :
              t \in {"4/12/2016 1:00:00 AM", "4/12/2016 11:00:00 PM",
                     "4/13/2016 1:00:00 AM", "4/12/2016 13:00:00"},
              v \in {60, 61}}
          \cup {HeartRow("x", "4/12/2016 1:00:00 AM", v) : v \in {60, 61}}
DailyH == <<[Id |-> "1", ActivityDate |-> "4/12/2016", TotalSteps |-> 8000, Calories |-> 2200],
            [Id |-> "1", ActivityDate |-> "4/13/2016", TotalSteps |-> 0, Calories |-> 2200]>>
SleepH == <<[Id |-> "1", SleepDay |-> "4/12/2016 1:00:00 AM", TotalMinutesAsleep |-> 400],
            [Id |-> "1", SleepDay |-> "4/13/2016 13:00:00", TotalMinutesAsleep |-> 420]>>

InitHR ==
    /\ fs \in [daily  : {Csv(DailyCols, DailyH)},
               sleep  : {Csv(SleepCols, SleepH)},
               weight : {Csv(WeightCols, WeightF)},
               heart  : Files({"Id", "Time", "Value"}, HeartH, 1, MaxHeart)]
    /\ InitProgram

SpecHR == InitHR /\ [][Next]_vars

\* --- steps and calories of the joined rows; row n of the file has key n
KeyAt(n) ==
    [Id |-> Int64Str(((n - 1) % 3) + 1),
     ActivityDate |-> IF n <= 3 THEN "4/12/2016" ELSE "4/13/2016"]

DailyQ ==
    {[n \in 1..Len(p) |-> KeyAt(n) @@ p[n]] :
        p \in UNION {[1..n -> [TotalSteps : {0, 8000, NaN},
                               Calories : {2200, 3100, 4000, Garbage}]] : n \in 1..MaxQC}}

InitQC ==
    /\ fs \in [daily  : {Csv(DailyCols, s) : s \in DailyQ},
               sleep  : {Csv(SleepCols, SleepH)},
               weight : {Missing},
               heart  : {Missing}]
    /\ InitProgram

SpecQC == InitQC /\ [][Next]_vars

\* ================================================================== claims
Joined == pc \in {"qc", "aggregations", "save", "done"}
Flags == pc \in {"aggregations", "save", "done"}

KeyOf(r) == <<r.Id, r.date>>
Keys(rows) == {KeyOf(rows[i]) : i \in 1..Len(rows)}

\* the tables as loaded, and as they enter the Deduplicator
Loaded(s) == read_csv_safe(fs[s])
DailyIn == ParseDaily(norm_id(Loaded("daily")))
SleepIn == ParseSleep(norm_id(Loaded("sleep")))

\* ----------------------------------------------------------------------- C1
\* C1: whatever sources are absent or present, the run never raises.
C1_RunNeverRaises == pc # "raised" /\ raised = "none"

\* ----------------------------------------------------------------------- C2
\* C2: after the join every (Id, date) key of the deduplicated activity table
\* is in exactly one row of df, no other key is in df (so none that only the
\* sleep table or the heart-rate aggregate has), and df has as many rows as
\* the activity table.
C2_JoinKeepsActivityKeys ==
    Joined =>
        /\ Len(df.rows) = Len(daily.rows)
        /\ \A k \in Keys(daily.rows) :
              Cardinality({i \in 1..Len(df.rows) : KeyOf(df.rows[i]) = k}) = 1
        /\ \A i \in 1..Len(df.rows) : KeyOf(df.rows[i]) \in Keys(daily.rows)
        /\ \A k \in (Keys(sleep.rows) \cup Keys(hr_day.rows)) \ Keys(daily.rows) :
              \A i \in 1..Len(df.rows) : KeyOf(df.rows[i]) # k

C2_Witness ==
    /\ pc = "qc"
    /\ Len(df.rows) >= 2
    /\ Keys(sleep.rows) \ Keys(daily.rows) # {}
    /\ Keys(hr_day.rows) \ Keys(daily.rows) # {}
    /\ Keys(daily.rows) \ Keys(sleep.rows) # {}
    /\ Keys(daily.rows) \cap Keys(sleep.rows) # {}

\* ----------------------------------------------------------------------- C3
Deduplicated(in, d) ==
    /\ \A i, j \in 1..Len(d.rows) : SameKey(d.rows[i], d.rows[j]) => i = j
    /\ \A i \in 1..Len(d.rows) : \E j \in 1..Len(in.rows) : d.rows[i] = in.rows[j]
    /\ \A j \in 1..Len(in.rows) :
          \E i \in 1..Len(d.rows) :
              /\ SameKey(d.rows[i], in.rows[j])
              /\ d.rows[i].idx <= in.rows[j].idx

\* C3: after the Deduplicator each (Id, date) key is in exactly one row of the
\* daily-activity table and of the sleep table, the row kept for a key is the
\* earliest row of that key in the input order, and no key is lost.
C3_DedupKeepsFirst ==
    pc = "hr_agg" => Deduplicated(DailyIn, daily) /\ Deduplicated(SleepIn, sleep)

C3_Witness ==
    /\ pc = "hr_agg"
    /\ Len(daily.rows) < Len(DailyIn.rows)
    /\ \E i \in 1..Len(daily.rows) : daily.rows[i].date = NaT /\ daily.rows[i].idx > 0
    /\ \E i, j \in 1..Len(SleepIn.rows) :
          /\ i < j
          /\ SameKey(SleepIn.rows[i], SleepIn.rows[j])
          /\ SleepIn.rows[i].SleepDay > SleepIn.rows[j].SleepDay
          /\ SleepIn.rows[j].date # NaT

\* ----------------------------------------------------------------------- C4
NonNullCal == {i \in 1..Len(df.rows) : df.rows[i].Calories # NaN}

\* v is the k-th smallest Calories value
OrderStat(v, k) ==
    /\ Cardinality({i \in NonNullCal : df.rows[i].Calories < v}) < k
    /\ k <= Cardinality({i \in NonNullCal : df.rows[i].Calories <= v})

IsMedian(m) ==
    LET n == Cardinality(NonNullCal)
    IN  IF n = 0 THEN m = NaN
        ELSE \E i, j \in NonNullCal :
                /\ OrderStat(df.rows[i].Calories, (n + 1) \div 2)
                /\ OrderStat(df.rows[j].Calories, (n \div 2) + 1)
                /\ 2 * m = df.rows[i].Calories + df.rows[j].Calories

\* C4: cal_median is the median of the non-null Calories of all joined rows,
\* a row with non-null TotalSteps and Calories is flagged exactly when its
\* TotalSteps is 0 and its Calories is strictly above the median, valid_row is
\* the negation of the flag, and only the valid rows are passed on.
C4_QualityFilter ==
    Flags =>
        /\ IsMedian(cal_median)
        /\ \A i \in 1..Len(df.rows) :
              LET r == df.rows[i]
              IN  /\ r.valid_row = ~r.zero_step_high_cal
                  /\ (r.TotalSteps # NaN /\ r.Calories # NaN) =>
                        (r.zero_step_high_cal <=>
                            (r.TotalSteps = 0 /\ r.Calories > cal_median))
        /\ pc = "aggregations" =>
              df_valid.rows = SelectIdx(df.rows, LAMBDA i : df.rows[i].valid_row)

C4_Witness ==
    /\ pc = "aggregations"
    /\ \E i \in 1..Len(df.rows) : df.rows[i].zero_step_high_cal
    /\ \E i \in 1..Len(df.rows) :
          /\ df.rows[i].TotalSteps = 0
          /\ df.rows[i].Calories = cal_median
          /\ df.rows[i].valid_row
    /\ \E i \in 1..Len(df.rows) : df.rows[i].TotalSteps > 0 /\ df.rows[i].valid_row

\* ----------------------------------------------------------------------- C5
HasHrDay == pc \in {"build_df", "qc", "aggregations", "save", "done"}

Samples(k) == {i \in 1..Len(heart.rows) : KeyOf(heart.rows[i]) = k}

RECURSIVE SumValues(_)
SumValues(S) ==
    IF S = {} THEN 0
    ELSE LET i == CHOOSE x \in S : TRUE
         IN  heart.rows[i].Value + SumValues(S \ {i})

Abs(x) == IF x < 0 THEN -x ELSE x

\* C5: hr_day has exactly one row for each (Id, date) group of samples, and
\* for a group of N samples that row has HRCount = N, MaxHR the largest and
\* MinHR the smallest value, and AvgHR the mean rounded to one decimal.
C5_HeartRateAggregate ==
    (HasHrDay /\ HeartUsable(heart)) =>
        LET G == {KeyOf(heart.rows[i]) : i \in {j \in 1..Len(heart.rows) : heart.rows[j].date # NaT}}
        IN  /\ Keys(hr_day.rows) = G
            /\ Len(hr_day.rows) = Cardinality(G)
            /\ \A n \in 1..Len(hr_day.rows) :
                  LET a == hr_day.rows[n]
                      S == Samples(KeyOf(a))
                      N == Cardinality(S)
                  IN  /\ a.HRCount = N
                      /\ \A i \in S : 10 * heart.rows[i].Value <= a.MaxHR
                      /\ \E i \in S : 10 * heart.rows[i].Value = a.MaxHR
                      /\ \A i \in S : 10 * heart.rows[i].Value >= a.MinHR
                      /\ \E i \in S : 10 * heart.rows[i].Value = a.MinHR
                      /\ 2 * Abs(N * a.AvgHR - 10 * SumValues(S)) <= N

C5_Witness ==
    /\ pc = "build_df"
    /\ Len(heart.rows) > 2
    /\ \E n \in 1..Len(hr_day.rows) :
          /\ hr_day.rows[n].HRCount = Len(heart.rows)
          /\ hr_day.rows[n].MaxHR # hr_day.rows[n].MinHR
          /\ hr_day.rows[n].AvgHR * hr_day.rows[n].HRCount
                # 10 * SumValues(Samples(KeyOf(hr_day.rows[n])))

\* ----------------------------------------------------------------------- C6
HrNames == {"AvgHR", "MaxHR", "MinHR", "HRCount"}

HeartUnusable ==
    \/ fs.heart.status # "ok"
    \/ fs.heart.cols \cap {"Time", "ActivitySecond"} = {}
    \/ "Value" \notin fs.heart.cols
    \/ "Id" \notin fs.heart.cols

\* C6: when the heart-rate source is absent or has no time, Value or Id column,
\* hr_day is empty with its six columns, and the joined table has the four
\* heart-rate columns, null in every row, and every activity row.
C6_EmptyHeartAggregate ==
    HeartUnusable =>
        /\ HasHrDay => hr_day.rows = <<>> /\ hr_day.cols = HrCols
        /\ Joined =>
              /\ HrNames \subseteq df.cols
              /\ Len(df.rows) = Len(daily.rows)
              /\ \A i \in 1..Len(df.rows) : \A c \in HrNames : df.rows[i][c] = NaN

C6_Witness ==
    /\ pc = "qc"
    /\ fs.heart.status = "ok"
    /\ "ActivitySecond" \in fs.heart.cols
    /\ "Value" \notin fs.heart.cols
    /\ Len(df.rows) = 2
    /\ Len(heart.rows) = 2

\* ----------------------------------------------------------------------- C7
Canonical == {"1", "2", "3", "<NA>"}

NormalizedOnce(s, t) ==
    LET l == Loaded(s)
    IN  /\ norm_id(t) = t
        /\ Len(t.rows) = Len(l.rows)
        /\ t.cols = l.cols
        /\ \A i \in 1..Len(t.rows) :
              /\ DOMAIN t.rows[i] = DOMAIN l.rows[i]
              /\ \A f \in DOMAIN t.rows[i] \ {"Id"} : t.rows[i][f] = l.rows[i][f]
        /\ (l.isNone \/ "Id" \notin l.cols) => t = l
        /\ (~l.isNone /\ "Id" \in l.cols) =>
              \A i \in 1..Len(t.rows) : t.rows[i].Id \in Canonical

PerRow(tok) ==
    IF Strp12(tok) # Fail THEN Strp12(tok)
    ELSE IF Strp24(tok) # Fail THEN Strp24(tok) ELSE NaT

RowWise(s, t, c) ==
    (~t.isNone /\ c \in t.cols) =>
        \A i \in 1..Len(t.rows) :
            /\ t.rows[i][c] = PerRow(Loaded(s).rows[i][c])
            /\ "date" \in t.cols => t.rows[i].date = normalize(PerRow(Loaded(s).rows[i][c]))

\* C8: in sleep, weight and heart-rate every row is parsed on its own, with
\* the 12-hour format and then the 24-hour format, and is null only when its
\* own raw value fails both.
C8_RowWiseFallback ==
    pc = "dedupe" =>
        /\ RowWise("sleep", sleep, "SleepDay")
        /\ RowWise("weight", weight, "Date")
        /\ RowWise("heart", heart, time_col(heart))

\* ----------------------------------------------------------------------- C9
\* C9: a joined row with a null day has no sleep and no heart-rate values.
C9_NullDayUnmatched ==
    Joined =>
        \A i \in 1..Len(df.rows) :
            df.rows[i].date = NaT =>
                /\ df.rows[i].TotalMinutesAsleep = NaN
                /\ \A c \in HrNames : df.rows[i][c] = NaN

\* ---------------------------------------------------------------------- C10
NullAsZero(v) == IF v = NaN THEN 0 ELSE v

\* C10 as stated: a null TotalSteps or Calories cell counts as 0 in the
\* comparison.
C10_NullComparedAsZero ==
    (Flags /\ cal_median # NaN) =>
        \A i \in 1..Len(df.rows) :
            df.rows[i].zero_step_high_cal <=>
                /\ NullAsZero(df.rows[i].TotalSteps) = 0
                /\ NullAsZero(df.rows[i].Calories) > cal_median

\* C10 amended: a joined row whose TotalSteps or Calories cell is null is never
\* flagged (a comparison with a null is false) and is valid, and the cells of
\* the row stay null.
C10_NullNeverFlagged ==
    Flags =>
        /\ Len(df.rows) = Len(daily.rows)
        /\ \A i \in 1..Len(df.rows) :
              /\ daily.rows[i].TotalSteps \in {NaN, Garbage} => df.rows[i].TotalSteps = NaN
              /\ daily.rows[i].Calories \in {NaN, Garbage} => df.rows[i].Calories = NaN
              /\ (df.rows[i].TotalSteps = NaN \/ df.rows[i].Calories = NaN) =>
                    ~df.rows[i].zero_step_high_cal /\ df.rows[i].valid_row

C10_Witness ==
    /\ pc = "aggregations"
    /\ cal_median # NaN
    /\ \E i \in 1..Len(df.rows) :
          /\ df.rows[i].TotalSteps = NaN
          /\ df.rows[i].Calories > cal_median
          /\ ~df.rows[i].zero_step_high_cal
    /\ \E i \in 1..Len(df.rows) : df.rows[i].Calories = NaN /\ df.rows[i].TotalSteps = 0

=============================================================================
